---- MODULE Spec2Model ----
(***************************************************************************)
(* Mistral AI speech-to-text integration for Home Assistant.               *)
(*                                                                         *)
(* Modelled: the setup flow (config_flow.py), the construction of the      *)
(* entity from a configuration entry (mistral_ai_stt/stt.py), and the      *)
(* audio-processing coroutine of both variants of the integration          *)
(* (MistralAISpeechToTextEntity and the MistralAISTTProvider of            *)
(* mistralai_stt/stt.py).  A coroutine is cut into one action per stretch  *)
(* of code between two awaits.                                             *)
(***************************************************************************)
EXTENDS Integers, Sequences, FiniteSets, TLC

\* ------------------------------------------------------------------ bounds
MaxChunks == 2      \* chunks delivered by one incoming audio stream
MaxEvents == 3      \* items of one backend response sequence
MaxEntries == 2     \* configuration entries the host stores

\* --------------------------------------------------------------- constants
CONF_API_KEY == "api_key"
CONF_URL == "url"
CONF_MODEL == "model"
DOMAIN_NAME == "mistral_ai_stt"
DEFAULT_API_URL == "https://api.mistral.ai"
DEFAULT_STT_MODEL == "voxtral-mini-latest"
DEFAULT_MODEL == "voxtral-mini-latest"
DEFAULT_TEMP == 0
SUPPORTED_MODELS == {"voxtral-mini-latest", "voxtral-mini-2507"}

\* ------------------------------------------------------------ python dicts
\* A dict is a function whose domain is its set of keys.
EmptyDict == [k \in {} |-> ""]

\* dict.get(key, default)
Get(d, k, default) == IF k \in DOMAIN d THEN d[k] ELSE default

\* dict items of m all present in d
ItemsIn(m, d) == \A k \in DOMAIN m : k \in DOMAIN d /\ d[k] = m[k]

\* ChainMap(first, second): lookup in first, then in second
ChainMap(first, second) ==
    [k \in (DOMAIN first) \cup (DOMAIN second) |->
        IF k \in DOMAIN first THEN first[k] ELSE second[k]]

\* -------------------------------------------------------------- exceptions
NoExc == [cls |-> "none", status_code |-> 0]
SDKError(code) == [cls |-> "SDKError", status_code |-> code]
ConnectError == [cls |-> "ConnectError", status_code |-> 0]
OtherError == [cls |-> "Exception", status_code |-> 0]
CancelledError == [cls |-> "CancelledError", status_code |-> 0]

\* classes derived from Exception; asyncio.CancelledError derives from
\* BaseException only
ExceptionClasses == {"SDKError", "ConnectError", "Exception"}

\* exceptions the backend calls can raise
BackendErrors == {SDKError(401), SDKError(500), ConnectError, OtherError}

\* ------------------------------------------------------------------- state
VARIABLES
    entries,      \* configuration entries stored by the host, in creation order
    entities,     \* per entry: the platform setup state and the entity built
    provider,     \* the MistralAISTTProvider built from the platform config
    flow_pc,      \* position of the setup flow
    flow_input,   \* <<>> or <<user_input>> of the submission being handled
    errors,       \* the local dict errors of async_step_api
    probe_exc,    \* <<>> or <<the exception validate_input raised>>
    probe_calls,  \* calls of models.retrieve_async made for this submission
    flow_result,  \* <<>> or <<the ConfigFlowResult returned>>
    pc,           \* per call: position of async_process_audio_stream
    target,       \* per call: the object whose method runs
    metadata,     \* per call: the SpeechMetadata argument
    stream,       \* per call: chunks the source stream has yet to deliver
    chunks,       \* per call: chunks collected so far
    sent,         \* per call: the requests handed to stream_async
    reply,        \* per call: <<>> or <<what stream_async answered>>
    nread,        \* per call: events taken from the response sequence
    returned,     \* per call: the SpeechResult values returned to the host
    raised,       \* per call: the exception that left the call
    cancel_at     \* per call: the await at which the host cancelled the task

flowVars == <<flow_pc, flow_input, errors, probe_exc, probe_calls, flow_result>>
setupVars == <<entries, entities, provider>>
callVars == <<pc, target, metadata, stream, chunks, sent, reply, nread,
              returned, raised, cancel_at>>
vars == <<entries, entities, provider, flow_pc, flow_input, errors, probe_exc,
          probe_calls, flow_result, pc, target, metadata, stream, chunks, sent,
          reply, nread, returned, raised, cancel_at>>

\* the calls of async_process_audio_stream the model follows
Requests == {"r1", "r2"}

\* ------------------------------------------------------------- setup flow
\* what the operator may type into the form: the key is required, the model
\* is optional
RawInputs ==
    { [k \in {CONF_API_KEY} |-> "key-1"],
      [k \in {CONF_API_KEY, CONF_MODEL} |->
          IF k = CONF_API_KEY THEN "key-1" ELSE "voxtral-mini-2507"] }

\* DATA_SCHEMA applied to the submitted form: optional keys get defaults
DATA_SCHEMA(raw) ==
    [k \in {CONF_API_KEY, CONF_URL, CONF_MODEL} |->
        IF k \in DOMAIN raw THEN raw[k]
        ELSE IF k = CONF_URL THEN DEFAULT_API_URL ELSE DEFAULT_STT_MODEL]

\* ConfigFlow._async_abort_entries_match: some entry has every submitted item
AbortEntriesMatch(match_dict) ==
    \E i \in 1..Len(entries) :
        ItemsIn(match_dict, ChainMap(entries[i].options, entries[i].data))

\* the except clauses of async_step_api: the value stored under errors["base"]
ClassifyError(exc) ==
    IF exc.cls = "SDKError"
    THEN (IF exc.status_code = 401 THEN "invalid_auth" ELSE "unknown")
    ELSE IF exc.cls = "ConnectError" THEN "cannot_connect"
    ELSE "unknown"

\* the dict errors once the try statement around validate_input is left
ErrorsAfter(excs) ==
    IF excs = <<>> THEN EmptyDict
    ELSE [k \in {"base"} |-> ClassifyError(excs[1])]

async_show_form ==
    [type |-> "form", title |-> "", data |-> EmptyDict, errors |-> EmptyDict,
     reason |-> ""]

async_create_entry(title, data) ==
    [type |-> "create_entry", title |-> title, data |-> data,
     errors |-> EmptyDict, reason |-> ""]

AbortFlow(reason) ==
    [type |-> "abort", title |-> "", data |-> EmptyDict, errors |-> EmptyDict,
     reason |-> reason]

\* the return statement that follows the try statement of async_step_api;
\* errs is the local dict errors at that point
StepApiReturn(user_input, errs) == async_create_entry(DOMAIN_NAME, user_input)

\* the entry the host stores for a create_entry result (no options are given)
ConfigEntry(id, result) ==
    [entry_id |-> id, title |-> result.title, data |-> result.data,
     options |-> EmptyDict]

NotLoaded == [state |-> "not_loaded", client |-> EmptyDict, stt_model |-> ""]
SetupError == [state |-> "setup_error", client |-> EmptyDict, stt_model |-> ""]

\* the end of async_step_api once validate_input returned or raised
FinishStepApi(excs) ==
    LET errs == ErrorsAfter(excs)
        res == StepApiReturn(flow_input[1], errs)
    IN /\ errors' = errs
       /\ probe_exc' = excs
       /\ flow_result' = <<res>>
       /\ flow_pc' = "finished"
       /\ IF res.type = "create_entry"
          THEN /\ entries' = Append(entries, ConfigEntry(Len(entries) + 1, res))
               /\ entities' = Append(entities, NotLoaded)
          ELSE UNCHANGED <<entries, entities>>

\* async_step_user(None): the form is shown
ShowForm ==
    /\ flow_pc = "init"
    /\ flow_result' = <<async_show_form>>
    /\ flow_pc' = "form"
    /\ UNCHANGED <<flow_input, errors, probe_exc, probe_calls>>
    /\ UNCHANGED setupVars /\ UNCHANGED callVars

\* async_step_user(user_input) up to the first await of validate_input
SubmitInput(raw) ==
    /\ flow_pc = "form"
    /\ LET user_input == DATA_SCHEMA(raw)
       IN /\ flow_input' = <<user_input>>
          /\ errors' = EmptyDict
          /\ IF AbortEntriesMatch(user_input)
             THEN /\ flow_result' = <<AbortFlow("already_configured")>>
                  /\ flow_pc' = "finished"
             ELSE /\ flow_result' = <<>>
                  /\ flow_pc' = "creating_client"
    /\ UNCHANGED <<probe_exc, probe_calls>>
    /\ UNCHANGED setupVars /\ UNCHANGED callVars

\* the executor job built the client: validate_input calls retrieve_async
ClientCreated ==
    /\ flow_pc = "creating_client"
    /\ probe_calls' = probe_calls + 1
    /\ flow_pc' = "probing"
    /\ UNCHANGED <<flow_input, errors, probe_exc, flow_result>>
    /\ UNCHANGED setupVars /\ UNCHANGED callVars

\* the executor job raised: validate_input raises before the probe
ClientCreationFails ==
    /\ flow_pc = "creating_client"
    /\ FinishStepApi(<<OtherError>>)
    /\ UNCHANGED <<flow_input, probe_calls, provider>>
    /\ UNCHANGED callVars

\* retrieve_async returned the model card
ProbeReturns ==
    /\ flow_pc = "probing"
    /\ FinishStepApi(<<>>)
    /\ UNCHANGED <<flow_input, probe_calls, provider>>
    /\ UNCHANGED callVars

\* retrieve_async raised exc; validate_input raises it again
ProbeRaises(exc) ==
    /\ flow_pc = "probing"
    /\ FinishStepApi(<<exc>>)
    /\ UNCHANGED <<flow_input, probe_calls, provider>>
    /\ UNCHANGED callVars

\* the operator opens the integration's setup dialog again
NewFlow ==
    /\ flow_pc = "finished"
    /\ Len(entries) < MaxEntries
    /\ flow_pc' = "init"
    /\ flow_input' = <<>>
    /\ errors' = EmptyDict
    /\ probe_exc' = <<>>
    /\ probe_calls' = 0
    /\ flow_result' = <<>>
    /\ UNCHANGED setupVars /\ UNCHANGED callVars

\* ------------------------------------------------------ platform setup
\* Mistral(api_key=..., server_url=...) as async_setup_entry builds it
MistralClient(data) ==
    [k \in {CONF_API_KEY, CONF_URL} |-> Get(data, k, "")]

\* MistralAISpeechToTextEntity.__init__
MistralAISpeechToTextEntity(config_entry, client) ==
    [state |-> "loaded", client |-> client,
     stt_model |-> Get(config_entry.options, CONF_MODEL, DEFAULT_STT_MODEL)]

\* stt.async_setup_entry for entry i; client_ok: the Mistral constructor returned
async_setup_entry(i, client_ok) ==
    /\ i \in 1..Len(entries)
    /\ entities[i].state = "not_loaded"
    /\ entities' =
         [entities EXCEPT ![i] =
            IF client_ok
            THEN MistralAISpeechToTextEntity(entries[i], MistralClient(entries[i].data))
            ELSE SetupError]
    /\ UNCHANGED <<entries, provider>>
    /\ UNCHANGED flowVars /\ UNCHANGED callVars

\* async_get_engine with a platform config that passed PLATFORM_SCHEMA
MistralAISTTProvider(config) ==
    [client |-> [k \in {CONF_API_KEY, CONF_URL} |->
                    IF k = CONF_API_KEY THEN Get(config, "api_key", "")
                    ELSE Get(config, "api_url", DEFAULT_API_URL)],
     model |-> Get(config, "model", DEFAULT_MODEL),
     temperature |-> Get(config, "temperature", DEFAULT_TEMP)]

\* platform configs: the key alone, or the key with a model of MODEL_SCHEMA
PlatformConfigs ==
    { [k \in {"api_key"} |-> "key-1"] } \cup
    { [k \in {"api_key", "model"} |-> IF k = "api_key" THEN "key-1" ELSE m] :
        m \in SUPPORTED_MODELS }

\* ------------------------------------------------- audio-processing inputs
SpeechMetadata(channel, bit_rate, sample_rate) ==
    [language |-> "en", channel |-> channel, bit_rate |-> bit_rate,
     sample_rate |-> sample_rate]

NoMetadata == [language |-> "", channel |-> 0, bit_rate |-> 0, sample_rate |-> 0]

\* the metadata the host sends, and metadata no WAV header can be built from
Metadatas ==
    { SpeechMetadata(1, 16, 16000), SpeechMetadata(2, 8, 44100),
      SpeechMetadata(0, 16, 16000), SpeechMetadata(1, 4, 16000),
      SpeechMetadata(1, 40, 16000), SpeechMetadata(1, 16, 0) }

\* byte strings the source stream delivers
AudioChunks == { <<7>>, <<8, 9>> }

RECURSIVE SeqsUpTo(_, _)
\* the sequences over S of length at most n
SeqsUpTo(S, n) ==
    IF n = 0 THEN { <<>> }
    ELSE LET shorter == SeqsUpTo(S, n - 1)
         IN shorter \cup { Append(q, x) : q \in { t \in shorter : Len(t) = n - 1 }, x \in S }

AudioStreams == SeqsUpTo(AudioChunks, MaxChunks)

Delta == [kind |-> "delta", text |-> "hel"]
Done(text) == [kind |-> "done", text |-> text]
Failure == [kind |-> "raise", text |-> ""]

\* what iterating the response can produce: an event, or an exception
EventItems == { Delta, Done("hello world"), Done(""), Failure }

\* response sequences: iteration stops at an exception, so one comes last
Responses ==
    { q \in SeqsUpTo(EventItems, MaxEvents) :
        \A i \in 1..Len(q) : q[i].kind = "raise" => i = Len(q) }

NoTarget == [impl |-> "none", entity |-> 0]
EntityTarget(i) == [impl |-> "entity", entity |-> i]
ProviderTarget == [impl |-> "provider", entity |-> 0]

\* ------------------------------------------------------------ WAV framing
RECURSIVE Join(_)
\* b"".join(chunks)
Join(cs) == IF cs = <<>> THEN <<>> ELSE Head(cs) \o Join(Tail(cs))

\* wave.Error, an Exception
WaveError == [cls |-> "wave.Error", status_code |-> 0]

\* metadata.bit_rate // 8
SampWidth(meta) == meta.bit_rate \div 8

\* setnchannels, setsampwidth and setframerate all accept their argument
WaveParamsOk(meta) ==
    /\ meta.channel >= 1
    /\ SampWidth(meta) >= 1 /\ SampWidth(meta) <= 4
    /\ meta.sample_rate > 0

\* the container wave.open(...) leaves in wav_stream
WaveWrite(meta, audio_data) ==
    [nchannels |-> meta.channel, sampwidth |-> SampWidth(meta),
     framerate |-> meta.sample_rate,
     nframes |-> Len(audio_data) \div (SampWidth(meta) * meta.channel),
     frames |-> audio_data]

\* ------------------------------------------------------ request building
SpeechResult(text, result) == [text |-> text, result |-> result]

\* the model attribute the call reads: self._stt_model / self._model
ModelOf(tgt) ==
    IF tgt.impl = "entity" THEN entities[tgt.entity].stt_model ELSE provider.model

\* temperature=0.0 in the entity, self._temperature in the provider
TemperatureOf(tgt) ==
    IF tgt.impl = "entity" THEN 0 ELSE provider.temperature

\* the keyword arguments of stream_async
TranscriptionRequest(tgt, meta, wav) ==
    [model |-> ModelOf(tgt),
     file |-> [content |-> wav, file_name |-> "audio.wav",
               content_type |-> "audio/wav"],
     language |-> meta.language,
     temperature |-> TemperatureOf(tgt)]

\* ------------------------------------------------- leaving the coroutine
\* return res
Return(r, res) ==
    /\ returned' = [returned EXCEPT ![r] = Append(@, res)]
    /\ pc' = [pc EXCEPT ![r] = "returned"]
    /\ UNCHANGED raised

\* exc leaves the coroutine: the task ends cancelled or with an exception
Propagate(r, exc) ==
    /\ raised' = [raised EXCEPT ![r] = Append(@, exc)]
    /\ pc' = [pc EXCEPT ![r] =
                IF exc.cls = "CancelledError" THEN "cancelled" ELSE "raised"]
    /\ UNCHANGED returned

\* bare except, or except BaseException
CatchesEverything(exc) == TRUE

\* isinstance(exc, Exception), the test of an "except Exception" clause
CatchesException(exc) == exc.cls \in ExceptionClasses \cup {"wave.Error"}

\* the handler always lets the exception go
HandlerReraises(r, exc) == Propagate(r, exc)

\* the except clause around submit and consumption
Handler(r, exc) ==
    IF CatchesException(exc)
    THEN Return(r, SpeechResult("", "ERROR"))
    ELSE Propagate(r, exc)

\* an exception raised inside "with wave.open(...)": the entity has an except
\* clause around it, the provider has none
FramingHandler(r, exc) ==
    IF target[r].impl = "entity" /\ CatchesException(exc)
    THEN Return(r, SpeechResult("", "ERROR"))
    ELSE Propagate(r, exc)

\* ------------------------------------------- async_process_audio_stream
\* the host calls the method of tgt with meta and a stream that will deliver
\* strm; the call suspends in the list comprehension that collects the audio
StartCall(r, tgt, meta, strm) ==
    /\ pc[r] = "idle"
    /\ \/ tgt = ProviderTarget
       \/ /\ tgt.impl = "entity"
          /\ tgt.entity \in 1..Len(entities)
          /\ entities[tgt.entity].state = "loaded"
    /\ pc' = [pc EXCEPT ![r] = "collecting"]
    /\ target' = [target EXCEPT ![r] = tgt]
    /\ metadata' = [metadata EXCEPT ![r] = meta]
    /\ stream' = [stream EXCEPT ![r] = strm]
    /\ UNCHANGED <<chunks, sent, reply, nread, returned, raised, cancel_at>>
    /\ UNCHANGED setupVars /\ UNCHANGED flowVars

\* the source stream delivers its next chunk
ReceiveChunk(r) ==
    /\ pc[r] = "collecting"
    /\ stream[r] # <<>>
    /\ chunks' = [chunks EXCEPT ![r] = Append(@, Head(stream[r]))]
    /\ stream' = [stream EXCEPT ![r] = Tail(@)]
    /\ UNCHANGED <<pc, target, metadata, sent, reply, nread, returned, raised,
                   cancel_at>>
    /\ UNCHANGED setupVars /\ UNCHANGED flowVars

\* the source stream ends: the audio is joined and framed, and stream_async is
\* called with the WAV container
EndOfStream(r) ==
    /\ pc[r] = "collecting"
    /\ stream[r] = <<>>
    /\ LET audio_data == Join(chunks[r])
       IN IF WaveParamsOk(metadata[r])
          THEN /\ sent' = [sent EXCEPT ![r] =
                     Append(@, TranscriptionRequest(target[r], metadata[r],
                                   WaveWrite(metadata[r], audio_data)))]
               /\ pc' = [pc EXCEPT ![r] = "submitting"]
               /\ UNCHANGED <<returned, raised>>
          ELSE /\ FramingHandler(r, WaveError)
               /\ UNCHANGED sent
    /\ UNCHANGED <<target, metadata, stream, chunks, reply, nread, cancel_at>>
    /\ UNCHANGED setupVars /\ UNCHANGED flowVars

\* stream_async returns the response, a lazy sequence that will produce events
SubmitReturns(r, events) ==
    /\ pc[r] = "submitting"
    /\ reply' = [reply EXCEPT ![r] =
                    <<[raised |-> FALSE, exc |-> NoExc, events |-> events]>>]
    /\ pc' = [pc EXCEPT ![r] = "streaming"]
    /\ UNCHANGED <<target, metadata, stream, chunks, sent, nread, returned,
                   raised, cancel_at>>
    /\ UNCHANGED setupVars /\ UNCHANGED flowVars

\* the handler submits the request again
SubmitRaisesRetries(r, exc) ==
    /\ pc[r] = "submitting"
    /\ Len(sent[r]) < 3
    /\ sent' = [sent EXCEPT ![r] = Append(@, sent[r][1])]
    /\ UNCHANGED <<pc, target, metadata, stream, chunks, reply, nread, returned,
                   raised, cancel_at>>
    /\ UNCHANGED setupVars /\ UNCHANGED flowVars

\* stream_async raises exc
SubmitRaises(r, exc) ==
    /\ pc[r] = "submitting"
    /\ reply' = [reply EXCEPT ![r] =
                    <<[raised |-> TRUE, exc |-> exc, events |-> <<>>]>>]
    /\ Handler(r, exc)
    /\ UNCHANGED <<target, metadata, stream, chunks, sent, nread, cancel_at>>
    /\ UNCHANGED setupVars /\ UNCHANGED flowVars

\* every call iterates the response stream_async gave to call r1
SharedResponse(r) ==
    IF reply["r1"] # <<>> THEN reply["r1"][1].events ELSE reply[r][1].events

\* the local variable response of call r
Response(r) == reply[r][1].events

\* the loop goes on after a done event unless it is the last item
ReturnsAtLastDone(r, n) ==
    Response(r)[n].kind = "done" /\ n = Len(Response(r))

\* isinstance(chunk.data, TranscriptionStreamDone) for the n-th item
IsDone(r, n) == Response(r)[n].kind = "done"

\* the loop returns an empty text
DoneResultEmpty(item) == SpeechResult("", "SUCCESS")

\* SpeechResult(chunk.data.text, SpeechResultState.SUCCESS)
DoneResult(item) == SpeechResult(item.text, "SUCCESS")

\* one step of "async for chunk in response": the next item, or the end
NextEvent(r) ==
    /\ pc[r] = "streaming"
    /\ IF nread[r] >= Len(Response(r))
       THEN /\ Return(r, SpeechResult("", "ERROR"))
            /\ UNCHANGED nread
       ELSE LET n == nread[r] + 1
                item == Response(r)[n]
            IN /\ nread' = [nread EXCEPT ![r] = n]
               /\ IF item.kind = "raise" THEN Handler(r, OtherError)
                  ELSE IF IsDone(r, n) THEN Return(r, DoneResult(item))
                  ELSE UNCHANGED <<pc, returned, raised>>
    /\ UNCHANGED <<target, metadata, stream, chunks, sent, reply, cancel_at>>
    /\ UNCHANGED setupVars /\ UNCHANGED flowVars

\* the host cancels the task: CancelledError is thrown at the await the call
\* is suspended in; the first await is outside every try statement
Cancel(r) ==
    /\ pc[r] \in {"collecting", "submitting", "streaming"}
    /\ cancel_at' = [cancel_at EXCEPT ![r] = pc[r]]
    /\ IF pc[r] = "collecting"
       THEN Propagate(r, CancelledError)
       ELSE Handler(r, CancelledError)
    /\ UNCHANGED <<target, metadata, stream, chunks, sent, reply, nread>>
    /\ UNCHANGED setupVars /\ UNCHANGED flowVars

\* ---------------------------------------------------------- initial states
NoCalls ==
    /\ pc = [r \in Requests |-> "idle"]
    /\ target = [r \in Requests |-> NoTarget]
    /\ metadata = [r \in Requests |-> NoMetadata]
    /\ stream = [r \in Requests |-> <<>>]
    /\ chunks = [r \in Requests |-> <<>>]
    /\ sent = [r \in Requests |-> <<>>]
    /\ reply = [r \in Requests |-> <<>>]
    /\ nread = [r \in Requests |-> 0]
    /\ returned = [r \in Requests |-> <<>>]
    /\ raised = [r \in Requests |-> <<>>]
    /\ cancel_at = [r \in Requests |-> "none"]

\* the integration is installed, nothing is configured yet
InitSetup ==
    /\ entries = <<>>
    /\ entities = <<>>
    /\ \E config \in PlatformConfigs : provider = MistralAISTTProvider(config)
    /\ flow_pc = "init"
    /\ flow_input = <<>>
    /\ errors = EmptyDict
    /\ probe_exc = <<>>
    /\ probe_calls = 0
    /\ flow_result = <<>>
    /\ NoCalls

\* one setup flow has run and its entry has been set up: the state in which
\* the host starts to send audio
Init ==
    /\ \E raw \in RawInputs :
         LET res == StepApiReturn(DATA_SCHEMA(raw), EmptyDict)
             entry == ConfigEntry(1, res)
         IN /\ entries = <<entry>>
            /\ entities = <<MistralAISpeechToTextEntity(entry, MistralClient(entry.data))>>
            /\ flow_input = <<DATA_SCHEMA(raw)>>
            /\ flow_result = <<res>>
    /\ \E config \in PlatformConfigs : provider = MistralAISTTProvider(config)
    /\ flow_pc = "finished"
    /\ errors = EmptyDict
    /\ probe_exc = <<>>
    /\ probe_calls = 1
    /\ NoCalls

\* ---------------------------------------------------------- specifications
Targets == { ProviderTarget } \cup { EntityTarget(i) : i \in 1..MaxEntries }

\* one call, every input
Next ==
    \/ \E tgt \in Targets, meta \in Metadatas, strm \in AudioStreams :
          StartCall("r1", tgt, meta, strm)
    \/ ReceiveChunk("r1")
    \/ EndOfStream("r1")
    \/ \E events \in Responses : SubmitReturns("r1", events)
    \/ \E exc \in BackendErrors : SubmitRaises("r1", exc)
    \/ NextEvent("r1")
    \/ Cancel("r1")

Spec == Init /\ [][Next]_vars

\* the inputs of the specifications that follow more than one call
FewMetadatas == { SpeechMetadata(1, 16, 16000), SpeechMetadata(1, 4, 16000) }
FewStreams == { <<>>, << <<7>>, <<8, 9>> >> }
FewResponses ==
    { <<>>, <<Done("hello world")>>, <<Delta, Done("")>>,
      <<Done(""), Done("hello world")>>, <<Delta, Failure>> }
FewErrors == { SDKError(401), ConnectError }

\* the setup flow, the platform setup and one call
NextSetup ==
    \/ ShowForm
    \/ \E raw \in RawInputs : SubmitInput(raw)
    \/ ClientCreated
    \/ ClientCreationFails
    \/ ProbeReturns
    \/ \E exc \in BackendErrors : ProbeRaises(exc)
    \/ NewFlow
    \/ \E i \in 1..MaxEntries, client_ok \in BOOLEAN : async_setup_entry(i, client_ok)
    \/ \E tgt \in Targets, meta \in FewMetadatas, strm \in FewStreams :
          StartCall("r1", tgt, meta, strm)
    \/ ReceiveChunk("r1")
    \/ EndOfStream("r1")
    \/ \E events \in FewResponses : SubmitReturns("r1", events)
    \/ \E exc \in FewErrors : SubmitRaises("r1", exc)
    \/ NextEvent("r1")
    \/ Cancel("r1")

SpecSetup == InitSetup /\ [][NextSetup]_vars

\* two calls on the entity, interleaved at their awaits
NextCalls ==
    \/ \E r \in Requests, meta \in FewMetadatas, strm \in FewStreams :
          StartCall(r, EntityTarget(1), meta, strm)
    \/ \E r \in Requests : ReceiveChunk(r)
    \/ \E r \in Requests : EndOfStream(r)
    \/ \E r \in Requests, events \in FewResponses : SubmitReturns(r, events)
    \/ \E r \in Requests, exc \in FewErrors : SubmitRaises(r, exc)
    \/ \E r \in Requests : NextEvent(r)
    \/ \E r \in Requests : Cancel(r)

SpecCalls == Init /\ [][NextCalls]_vars

\* ------------------------------------------------------------------ claims
ErrorResult == SpeechResult("", "ERROR")
Over(r) == pc[r] \in {"returned", "raised"}
Ended(r) == pc[r] \in {"returned", "raised", "cancelled"}

\* C1: a configuration entry is created only after a probe that succeeded;
\* when validate_input fails, in whatever way, no entry is created.
C1_EntryOnlyAfterSuccessfulProbe ==
    /\ (flow_result # <<>> /\ flow_result[1].type = "create_entry")
          => (probe_exc = <<>> /\ probe_calls = 1)
    /\ (flow_pc = "finished" /\ probe_exc # <<>>)
          => \A i \in 1..Len(entries) : entries[i].data # flow_input[1]

\* the events of q are non-terminal ones followed by one done event
EndsInDone(q) ==
    /\ q # <<>>
    /\ q[Len(q)].kind = "done"
    /\ \A i \in 1..(Len(q) - 1) : q[i].kind = "delta"

\* C2: when the response is any number of non-terminal events followed by a
\* done event with text T, the call returns SUCCESS with text exactly T (and
\* until it has returned it is still reading or was cancelled).
C2_DoneTextReturned ==
    \A r \in Requests :
        (reply[r] # <<>> /\ ~reply[r][1].raised /\ EndsInDone(reply[r][1].events))
        => LET q == reply[r][1].events
           IN /\ pc[r] \in {"streaming", "returned", "cancelled"}
              /\ pc[r] = "streaming" => nread[r] < Len(q) /\ returned[r] = <<>>
              /\ pc[r] = "returned" =>
                    returned[r] = <<SpeechResult(q[Len(q)].text, "SUCCESS")>>

C2_Witness ==
    \E r \in Requests :
        /\ pc[r] = "returned"
        /\ reply[r] # <<>>
        /\ reply[r][1].events = <<Delta, Delta, Done("hello world")>>
        /\ returned[r] = <<SpeechResult("hello world", "SUCCESS")>>

\* the call has taken a done event from its response
ObtainedDone(r) ==
    /\ reply[r] # <<>>
    /\ \E i \in 1..nread[r] : reply[r][1].events[i].kind = "done"

\* C3: once framing has succeeded, a call that is over without having obtained
\* a done event (response exhausted, submit raised, iteration raised) has
\* returned ERROR with empty text, and no exception left it.
C3_NoDoneIsError ==
    \A r \in Requests :
        (Over(r) /\ sent[r] # <<>> /\ ~ObtainedDone(r))
        => /\ pc[r] = "returned"
           /\ returned[r] = <<ErrorResult>>
           /\ raised[r] = <<>>

C3_Witness ==
    \E r \in Requests :
        /\ pc[r] = "returned"
        /\ reply[r] # <<>>
        /\ reply[r][1].events = <<Delta, Failure>>
        /\ nread[r] = 2
        /\ returned[r] = <<ErrorResult>>

\* C4: in both entry points, a call whose WAV container cannot be built
\* returns ERROR with empty text and no exception leaves it.
C4_FramingFailureIsError ==
    \A r \in Requests :
        (Over(r) /\ ~WaveParamsOk(metadata[r]))
        => /\ pc[r] = "returned"
           /\ returned[r] = <<ErrorResult>>
           /\ raised[r] = <<>>

\* the failure class the operator is to be told
ReportFor(exc) ==
    CASE exc.cls = "SDKError" /\ exc.status_code = 401 -> "invalid_auth"
      [] exc.cls = "SDKError" /\ exc.status_code # 401 -> "unknown"
      [] exc.cls = "ConnectError" -> "cannot_connect"
      [] OTHER -> "unknown"

\* C5: when the probe fails, the outcome of the setup step reports the failure
\* class: invalid_auth, cannot_connect or unknown.
C5_FailureClassReported ==
    (flow_pc = "finished" /\ probe_exc # <<>>)
    => Get(flow_result[1].errors, "base", "") = ReportFor(probe_exc[1])

\* q[n] is the first done event of q
FirstDoneAt(q, n) ==
    /\ n \in 1..Len(q)
    /\ q[n].kind = "done"
    /\ \A i \in 1..(n - 1) : q[i].kind # "done"

\* C6: events are taken one at a time in arrival order; the first done event
\* ends consumption and its text is the result; once the call has ended
\* nothing more is read, whatever the response still holds.
C6_FirstDoneEndsConsumption ==
    [][\A r \in Requests :
          /\ nread'[r] = nread[r] \/ nread'[r] = nread[r] + 1
          /\ Ended(r) =>
                /\ nread'[r] = nread[r]
                /\ returned'[r] = returned[r]
                /\ pc'[r] = pc[r]
          /\ pc'[r] = "streaming" =>
                \A i \in 1..nread'[r] : reply'[r][1].events[i].kind # "done"
          /\ (pc'[r] = "returned" /\ returned'[r] # <<>>
                /\ returned'[r][1].result = "SUCCESS") =>
                /\ FirstDoneAt(reply'[r][1].events, nread'[r])
                /\ returned'[r][1].text = reply'[r][1].events[nread'[r]].text
      ]_vars

C6_Witness ==
    \E r \in Requests :
        /\ pc[r] = "returned"
        /\ reply[r] # <<>>
        /\ reply[r][1].events = <<Delta, Done("hello world"), Done("")>>
        /\ nread[r] = 2
        /\ returned[r] = <<SpeechResult("hello world", "SUCCESS")>>

\* C7: a call cancelled at any of its three awaits ends cancelled without
\* having returned a result, and reads no further event.
C7_CancelYieldsNoResult ==
    [][\A r \in Requests :
          cancel_at'[r] # "none" =>
             /\ pc'[r] = "cancelled"
             /\ returned'[r] = <<>>
             /\ raised'[r] = <<CancelledError>>
             /\ cancel_at[r] # "none" => nread'[r] = nread[r]
      ]_vars

C7_Witness ==
    \E r \in Requests :
        /\ cancel_at[r] = "streaming"
        /\ nread[r] = 1
        /\ Len(reply[r][1].events) > 1
        /\ pc[r] = "cancelled"
        /\ returned[r] = <<>>

\* framing was reached and succeeded / was reached and failed
FramingSucceeded(r) ==
    /\ pc[r] \notin {"idle", "collecting"}
    /\ cancel_at[r] # "collecting"
    /\ WaveParamsOk(metadata[r])
FramingFailed(r) ==
    /\ pc[r] \notin {"idle", "collecting"}
    /\ cancel_at[r] # "collecting"
    /\ ~WaveParamsOk(metadata[r])

\* C8: a call submits to the backend at most once: exactly once when framing
\* succeeded, never when it failed; a setup submission probes at most once.
C8_NothingRetried ==
    /\ \A r \in Requests :
          /\ Len(sent[r]) <= 1
          /\ FramingSucceeded(r) => Len(sent[r]) = 1
          /\ FramingFailed(r) => Len(sent[r]) = 0
    /\ probe_calls <= 1
    /\ flow_pc = "probing" => probe_calls = 1

C8_Witness ==
    /\ pc["r1"] = "returned"
    /\ reply["r1"] # <<>>
    /\ reply["r1"][1].raised
    /\ Len(sent["r1"]) = 1
    /\ returned["r1"] = <<ErrorResult>>
    /\ flow_pc = "finished"
    /\ probe_exc = <<ConnectError>>
    /\ probe_calls = 1

RECURSIVE Consume(_)
\* the result of a stream consumer run on the events q by itself
Consume(q) ==
    IF q = <<>> THEN ErrorResult
    ELSE IF Head(q).kind = "done" THEN SpeechResult(Head(q).text, "SUCCESS")
    ELSE IF Head(q).kind = "raise" THEN ErrorResult
    ELSE Consume(Tail(q))

\* what a call on the entity returns when it runs alone
AloneResult(meta, rep) ==
    IF ~WaveParamsOk(meta) THEN ErrorResult
    ELSE IF rep[1].raised THEN ErrorResult
    ELSE Consume(rep[1].events)

\* C9: with two calls interleaved at their awaits, each call submits its own
\* audio and metadata and returns what it would return alone on its own
\* response; no step of a call changes the entity's client or model.
C9_CallsIndependent ==
    [][/\ \A r \in Requests :
            /\ sent'[r] # <<>> =>
                  /\ sent'[r][1].file.content.frames = Join(chunks'[r])
                  /\ sent'[r][1].file.content.framerate = metadata'[r].sample_rate
                  /\ sent'[r][1].language = metadata'[r].language
            /\ pc'[r] = "returned" =>
                  returned'[r] = <<AloneResult(metadata'[r], reply'[r])>>
            /\ pc'[r] # "returned" => returned'[r] = <<>>
       /\ entities' = entities
       /\ entries' = entries
       /\ provider' = provider
      ]_vars

C9_Witness ==
    /\ pc["r1"] = "streaming"
    /\ nread["r1"] = 1
    /\ reply["r1"][1].events = <<Delta, Done("")>>
    /\ pc["r2"] = "returned"
    /\ reply["r2"] # <<>>
    /\ reply["r2"][1].events = <<Done(""), Done("hello world")>>
    /\ returned["r2"] = <<SpeechResult("", "SUCCESS")>>
    /\ chunks["r1"] # chunks["r2"]

\* C10: every request the entity submits carries the model identifier stored
\* in the configuration entry the entity was built from.
C10_SetupModelUsed ==
    \A r \in Requests :
        target[r].impl = "entity" =>
            \A k \in 1..Len(sent[r]) :
                sent[r][k].model = entries[target[r].entity].data[CONF_MODEL]

====
